---- MODULE Spec2Model ----
(***************************************************************************)
(* A model of the bit counting benchmark (count_bits.cpp, sse.cpp).        *)
(*                                                                         *)
(* A buffer is a function from byte offsets to bytes.  A chunk (unsigned   *)
(* long, 8 bytes on the x86-64 target the Makefile builds for) is a        *)
(* sequence of 8 bytes, least significant byte first, which is what the    *)
(* reinterpret_cast of buffer + off yields on a little-endian machine.     *)
(* 64-bit arithmetic is done on that representation, modulo 2^64, byte by  *)
(* byte with carries.                                                      *)
(***************************************************************************)
EXTENDS Integers, Sequences, FiniteSets, TLC

(***************************************************************************)
(* Bounds of the model.                                                    *)
(***************************************************************************)
\* buffers hold up to MaxChunks whole chunks plus any remainder
MaxChunks == 2
\* the OpenMP team has 1..MaxThreads threads
MaxThreads == 3
\* time_bit_counting is called with iters in 1..MaxIters
MaxIters == 2
\* the bytes main's buffer has for each megabyte asked for
ModelMeg == 16

(***************************************************************************)
(* Program constants.                                                      *)
(***************************************************************************)
\* sizeof(chunk_t), chunk_t = const unsigned long
chunk_size == 8
\* sizeof(double_chunk_t), double_chunk_t = const unsigned long long
double_chunk_size == 8
\* sizeof(int): init_lookup_table passes the int i to count_bits
sizeof_int == 4

(***************************************************************************)
(* Bytes.                                                                  *)
(***************************************************************************)
RECURSIVE SumUpTo(_, _)
\* f[0] + ... + f[n-1]
SumUpTo(f, n) == IF n = 0 THEN 0 ELSE f[n - 1] + SumUpTo(f, n - 1)

RECURSIVE ByteAnd(_, _)
\* a & b on bytes: at once when one is 0 or 0xFF or both are equal, else
\* bit by bit from the lowest
ByteAnd(a, b) ==
    IF a = 0 \/ b = 0 THEN 0
    ELSE IF a = b \/ b = 255 THEN a
    ELSE IF a = 255 THEN b
    ELSE (a % 2) * (b % 2) + 2 * ByteAnd(a \div 2, b \div 2)

(***************************************************************************)
(* 64-bit words: sequences of chunk_size bytes, the least significant      *)
(* byte first (element 1 is the byte at the lowest address).               *)
(***************************************************************************)
RECURSIVE ToWordFrom(_, _)
ToWordFrom(n, k) ==
    IF k > chunk_size THEN <<>> ELSE <<n % 256>> \o ToWordFrom(n \div 256, k + 1)

\* a value below 2^31 as a word
ToWord(n) == ToWordFrom(n, 1)

RECURSIVE Fill64(_, _)
Fill64(b, k) == IF k > chunk_size THEN <<>> ELSE <<b>> \o Fill64(b, k + 1)

\* ~(chunk_t)0
Ones64 == Fill64(255, 1)

IsZero64(a) == \A k \in 1..chunk_size : a[k] = 0

RECURSIVE AndFrom(_, _, _)
AndFrom(a, b, k) ==
    IF k > chunk_size THEN <<>> ELSE <<ByteAnd(a[k], b[k])>> \o AndFrom(a, b, k + 1)

And64(a, b) == AndFrom(a, b, 1)

RECURSIVE AddFrom(_, _, _, _)
AddFrom(a, b, k, carry) ==
    IF k > chunk_size THEN <<>>
    ELSE <<(a[k] + b[k] + carry) % 256>>
         \o AddFrom(a, b, k + 1, (a[k] + b[k] + carry) \div 256)

\* a + b modulo 2^64
Add64(a, b) == AddFrom(a, b, 1, 0)

RECURSIVE SubFrom(_, _, _, _)
SubFrom(a, b, k, borrow) ==
    IF k > chunk_size THEN <<>>
    ELSE <<(a[k] - b[k] - borrow + 256) % 256>>
         \o SubFrom(a, b, k + 1, IF a[k] - b[k] - borrow < 0 THEN 1 ELSE 0)

\* a - b modulo 2^64
Sub64(a, b) == SubFrom(a, b, 1, 0)

RECURSIVE MulColumn(_, _, _, _)
\* a[1]*b[k] + a[2]*b[k-1] + ... + a[i]*b[k+1-i]
MulColumn(a, b, k, i) ==
    IF i = 0 THEN 0 ELSE a[i] * b[k + 1 - i] + MulColumn(a, b, k, i - 1)

RECURSIVE MulFrom(_, _, _, _)
MulFrom(a, b, k, carry) ==
    IF k > chunk_size THEN <<>>
    ELSE LET sum == MulColumn(a, b, k, k) + carry
         IN  <<sum % 256>> \o MulFrom(a, b, k + 1, sum \div 256)

\* a * b modulo 2^64
Mul64(a, b) == MulFrom(a, b, 1, 0)

RECURSIVE DivFrom(_, _, _, _)
DivFrom(a, d, k, rem) ==
    IF k = 0 THEN <<>>
    ELSE DivFrom(a, d, k - 1, (rem * 256 + a[k]) % d) \o <<(rem * 256 + a[k]) \div d>>

\* a / d for a small divisor d, by long division from the top byte
DivSmall64(a, d) == DivFrom(a, d, chunk_size, 0)

RECURSIVE ShiftFrom(_, _, _, _)
ShiftFrom(a, n, fill, k) ==
    IF k > chunk_size THEN <<>>
    ELSE LET q == n \div 8
             r == n % 8
             lo == IF k + q <= chunk_size THEN a[k + q] ELSE fill
             hi == IF k + q + 1 <= chunk_size THEN a[k + q + 1] ELSE fill
         IN  <<(lo \div (2 ^ r)) + (hi % (2 ^ r)) * (2 ^ (8 - r))>>
             \o ShiftFrom(a, n, fill, k + 1)

\* >> on an unsigned long
Shr64(a, n) == ShiftFrom(a, n, 0, 1)

\* >> on a (signed) long: gcc shifts arithmetically
Sar64(a, n) == ShiftFrom(a, n, IF a[chunk_size] >= 128 THEN 255 ELSE 0, 1)

\* the value of a word as a long, for the small values a bit count can take
ToLong(w) ==
    IF \A k \in 4..chunk_size : w[k] = 0
    THEN w[1] + 256 * w[2] + 65536 * w[3]
    ELSE IF \A k \in 4..chunk_size : w[k] = 255
    THEN w[1] + 256 * w[2] + 65536 * w[3] - 16777216
    ELSE "out of the model's integer range"

(***************************************************************************)
(* The magic numbers of the sideways addition.                             *)
(***************************************************************************)
B1 == DivSmall64(Ones64, 3)
B2 == Mul64(DivSmall64(Ones64, 15), ToWord(3))
B3 == Mul64(DivSmall64(Ones64, 255), ToWord(15))
B4 == DivSmall64(Ones64, 255)
S1 == (chunk_size - 1) * 8

CBITSa(val) == Sub64(val, And64(Sar64(val, 1), B1))
\* CBITSb with the pairs shifted by one bit instead of two
CBITSb_ShiftOne(val) == Add64(And64(val, B2), And64(Sar64(val, 1), B2))

CBITSb(val) == Add64(And64(val, B2), And64(Sar64(val, 2), B2))
CBITSc(val) == And64(Add64(val, Sar64(val, 4)), B3)
CBITS(val) == CBITSc(CBITSb(CBITSa(val)))
CBITS2(val) == Shr64(Mul64(val, B4), S1)

(***************************************************************************)
(* count_bits_naive and count_bits.                                        *)
(***************************************************************************)
\* the inner loop stopping one bit early
NaiveByte_SevenBits(b) == Cardinality({bit \in 0..6 : ByteAnd(b, 2 ^ bit) # 0})

\* the inner loop of count_bits_naive on one byte
NaiveByte(b) == Cardinality({bit \in 0..7 : ByteAnd(b, 2 ^ bit) # 0})

\* count_bits_naive on the n bytes bytes[0..n-1]
count_bits_naive(bytes, n) == SumUpTo([k \in 0..(n - 1) |-> NaiveByte(bytes[k])], n)

\* count_bits<int>(number): the naive count over the bytes of the int
count_bits(number) ==
    count_bits_naive([k \in 0..(sizeof_int - 1) |-> (number \div (256 ^ k)) % 256],
                     sizeof_int)

(***************************************************************************)
(* The POPCNT instruction, which __builtin_popcountl, __builtin_popcountll *)
(* and the inline assembly compile to.                                     *)
(***************************************************************************)
RECURSIVE PopcntBits(_)
PopcntBits(b) == IF b = 0 THEN 0 ELSE (b % 2) + PopcntBits(b \div 2)

popcnt(w) == SumUpTo([k \in 0..(chunk_size - 1) |-> PopcntBits(w[k + 1])], chunk_size)

(***************************************************************************)
(* The kernels.                                                            *)
(***************************************************************************)
table_kernel(table, chunk) ==
    SumUpTo([byte \in 0..(chunk_size - 1) |-> table[chunk[byte + 1]]], chunk_size)

\* chunk >>= 1 in place of clearing the lowest set bit
KernighanStep_ShiftRight(chunk) == Shr64(chunk, 1)

RECURSIVE DecFrom(_, _)
\* w - 1 from byte k on, the bytes below k having borrowed
DecFrom(w, k) ==
    IF k > chunk_size THEN <<>>
    ELSE IF w[k] = 0 THEN <<255>> \o DecFrom(w, k + 1)
    ELSE <<w[k] - 1>> \o SubSeq(w, k + 1, chunk_size)

\* chunk - 1, which wraps as the x86-64 subtraction does
Dec64(w) == DecFrom(w, 1)

\* chunk &= chunk - 1; chunk - 1 overflows when chunk is LONG_MIN
KernighanStep(chunk) == And64(chunk, Dec64(chunk))

RECURSIVE KernighanLoop(_, _)
\* the while loop of kernighan_kernel; chunk - 1 wraps, as the x86-64
\* subtraction does, when chunk is LONG_MIN
KernighanLoop(chunk, total) ==
    IF IsZero64(chunk) THEN total
    ELSE KernighanLoop(KernighanStep(chunk), total + 1)

\* chunk - 1 overflows the signed long when chunk is LONG_MIN, which every
\* chunk with its top bit set reaches: the outcomes gcc -O3 produces are the
\* wrapping loop and the loop replaced by the popcount it is recognised as
kernighan_kernel(chunk) == {KernighanLoop(chunk, 0), popcnt(chunk)}

sidewaysaddition_kernel(chunk) == ToLong(CBITS2(CBITS(chunk)))

intrinsic_kernel(chunk) == popcnt(chunk)

intrinsic_kernel_double(chunk) == popcnt(chunk)

\* the results a kernel can return for a chunk
KernelOutcomes(kern, table, chunk) ==
    CASE kern = "table" -> {table_kernel(table, chunk)}
      [] kern = "kernighan" -> kernighan_kernel(chunk)
      [] kern = "sidewaysaddition" -> {sidewaysaddition_kernel(chunk)}
      [] kern = "intrinsic" -> {intrinsic_kernel(chunk)}
      [] kern = "intrinsic_double" -> {intrinsic_kernel_double(chunk)}

(***************************************************************************)
(* The bit counting functions and the harness each one instantiates.       *)
(* "kernel2" is count_bits_kernel2<intrinsic_kernel,                       *)
(* sidewaysaddition_kernel, numFunc1, numFunc2>; count_bits_optimized is   *)
(* its instance with the weights 1, 1.  "sse_intrinsic" and "sse_fast" are *)
(* count_bits_intrinsic and count_bits_fast of sse.cpp.                    *)
(***************************************************************************)
KernelFuncs == {"table", "kernighan", "sidewaysaddition", "intrinsic"}
SseFuncs == {"sse_intrinsic", "sse_fast"}
Funcs == {"naive", "intrinsic_double", "asm", "optimized", "kernel2"}
         \cup KernelFuncs \cup SseFuncs

\* the template arguments numFunc1, numFunc2 of an instance of count_bits_kernel2
Weights(f) == IF f = "kernel2" THEN {<<2, 1>>} ELSE {<<1, 1>>}

\* the size of the chunks the function f works in
ChunkSizeOf(f) == IF f = "intrinsic_double" THEN double_chunk_size ELSE chunk_size

(***************************************************************************)
(* The buffers: init_buffer fills the buffer with random bytes; the model  *)
(* takes the bytes from a few repeating patterns.                          *)
(***************************************************************************)
PatternBytes == << <<0>>, <<255>>, <<177, 0, 128, 255, 1>> >>
Patterns == 1..Len(PatternBytes)
MakeBuffer(p, n) ==
    [o \in 0..(n - 1) |-> PatternBytes[p][(o % Len(PatternBytes[p])) + 1]]
Lengths == 0..(chunk_size * MaxChunks + chunk_size - 1)

VARIABLES
    buffer,        \* the bytes of the buffer, by offset
    bufsize,       \* the length handed to the counting functions
    lookup_table,  \* static int lookup_table[256]
    nthreads_var,  \* OpenMP's number of threads for the next parallel region
    func,          \* time_bit_counting's func
    numFunc,       \* <<numFunc1, numFunc2>> of the count_bits_kernel2 instance
    iters,         \* time_bit_counting's iters
    i,             \* time_bit_counting's loop counter
    num_bits,      \* the result of the last call of func
    out,           \* what time_bit_counting has printed in its loop
    pc,            \* where the calling thread is
    frame,         \* the locals of the running counting function
    thr,           \* the threads of the team: their private variables
    reads,         \* how often each offset was read in the running call
    kernel_calls,  \* chunks the kernel (or popcnt) was applied to in the call
    naive_len,     \* bytes handed to count_bits_naive for the tail in the call
    results,       \* the totals the calls returned, in order
    mpc,           \* main: 0 in init_lookup_table, then the step of MainProgram
    tbl_i,         \* init_lookup_table's loop counter
    original_n_threads,  \* main's original_n_threads
    kernighan      \* the activation of kernighan_kernel that is stepped through

vars == <<buffer, bufsize, lookup_table, nthreads_var, func, numFunc, iters, i,
          num_bits, out, pc, frame, thr, reads, kernel_calls, naive_len, results,
          mpc, tbl_i, original_n_threads, kernighan>>

\* what no step of time_bit_counting or of a counting function changes
ctx == <<buffer, bufsize, lookup_table, nthreads_var, func, numFunc, iters,
         mpc, tbl_i, original_n_threads, kernighan>>

(***************************************************************************)
(* Memory reads.  An offset outside the buffer holds anything: the read    *)
(* is undefined, and the model lets it yield either of two bytes.          *)
(***************************************************************************)
InBounds(off, n) == \A k \in 0..(n - 1) : off + k \in DOMAIN buffer

Garbage(off, n) == IF InBounds(off, n) THEN {0} ELSE {0, 255}

ReadByte(o, g) == IF o \in DOMAIN buffer THEN buffer[o] ELSE g

RECURSIVE LoadFrom(_, _, _, _)
LoadFrom(off, k, n, g) ==
    IF k >= n THEN <<>> ELSE <<ReadByte(off + k, g)>> \o LoadFrom(off, k + 1, n, g)

\* *reinterpret_cast<chunk_t *>(buffer + off)
LoadChunk(off, g) == LoadFrom(off, 0, chunk_size, g)

\* reads with the n offsets from off on counted once more
Touch(r, off, n) ==
    [o \in DOMAIN r \cup (off..(off + n - 1)) |->
        (IF o \in DOMAIN r THEN r[o] ELSE 0)
        + (IF o \in off..(off + n - 1) THEN 1 ELSE 0)]

\* the results count_bits_naive(buffer + off, n) can return
NaiveOutcomes(off, n) ==
    {count_bits_naive([k \in 0..(n - 1) |-> ReadByte(off + k, g)], n) : g \in Garbage(off, n)}

\* a table filled one entry short
TableEntries_Short == 256 - 1

\* static int lookup_table[256]
TableEntries == 256

\* the table init_lookup_table leaves behind
FilledTable == [b \in 0..(TableEntries - 1) |-> count_bits(b)]

(***************************************************************************)
(* OpenMP.                                                                 *)
(***************************************************************************)
\* a static schedule that forgets the threads that take one iteration more
StaticLo_NoRemainder(n, nthr, t) == (n \div nthr) * t

\* schedule(static) of libgomp, the default of a loop with no schedule
\* clause: the first iteration of thread t of nthr, of n iterations
StaticLo(n, nthr, t) ==
    LET q == n \div nthr
        r == n % nthr
    IN  IF t < r THEN (q + 1) * t ELSE q * t + r

\* one past the last iteration of thread t
StaticHi(n, nthr, t) ==
    StaticLo(n, nthr, t) + (n \div nthr) + (IF t < n % nthr THEN 1 ELSE 0)

\* num_threads(): the size of the team a parallel region gets
num_threads == IF nthreads_var > 0 THEN nthreads_var ELSE -1

Team == DOMAIN thr

\* the implicit barrier that ends a worksharing loop: every thread has
\* finished its iterations
LoopBarrier == \A t \in Team : thr[t].tpc # "asm" /\ thr[t].idx = thr[t].hi

\* a join that waits for one thread only
Joined_Any == \E t \in DOMAIN thr : thr[t].tpc = "done"

\* the join that ends the parallel region: every thread has finished and
\* its private copy of total has been combined into the original
Joined == \A t \in Team : thr[t].tpc = "done"

\* the private variables of thread t of nthr on entry to the region, with n
\* loop iterations to share out
NewThread(n, nthr, t, kern) ==
    [tpc |-> "for", lo |-> StaticLo(n, nthr, t), idx |-> StaticLo(n, nthr, t),
     hi |-> StaticHi(n, nthr, t), thread_total |-> 0, total |-> 0, kern |-> kern,
     rcx |-> ToWord(0), rbuf |-> 0, rtotal |-> 0]

\* the locals of the counting function before its first call
NoFrame ==
    [total |-> 0, num_chunks |-> 0, chunked_bufsize |-> 0, leftover |-> 0,
     num_cores |-> 0, bufsize_per_core |-> 0]

\* no activation of kernighan_kernel is stepped through
NoKernighan ==
    [arg |-> ToWord(0), chunk |-> ToWord(0), total |-> 0, iterations |-> 0,
     build |-> "loop", kpc |-> "idle"]

\* a total that is not set to 0 on entry
ChunkedFrame_StaticTotal(size, csize) ==
    [total |-> frame.total,
     num_chunks |-> size \div csize,
     chunked_bufsize |-> (size \div csize) * csize,
     leftover |-> size - (size \div csize) * csize,
     num_cores |-> 0,
     bufsize_per_core |-> 0]

\* long total = 0 and the three consts every chunked harness starts with
ChunkedFrame(size, csize) ==
    [total |-> 0,
     num_chunks |-> size \div csize,
     chunked_bufsize |-> (size \div csize) * csize,
     leftover |-> size - (size \div csize) * csize,
     num_cores |-> 0,
     bufsize_per_core |-> 0]

\* the buffer split among the cores by bytes, not by whole chunks
AsmFrame_ByteSplit(size, cores) ==
    [total |-> 0,
     num_chunks |-> size \div chunk_size,
     chunked_bufsize |-> cores * (size \div cores),
     leftover |-> size - cores * (size \div cores),
     num_cores |-> cores,
     bufsize_per_core |-> size \div cores]

\* the consts and the total of count_bits_asm
AsmFrame(size, cores) ==
    [total |-> 0,
     num_chunks |-> size \div chunk_size,
     chunked_bufsize |-> cores * (((size \div chunk_size) \div cores) * chunk_size),
     leftover |-> size - cores * (((size \div chunk_size) \div cores) * chunk_size),
     num_cores |-> cores,
     bufsize_per_core |-> ((size \div chunk_size) \div cores) * chunk_size]

\* thread_id < num_threads / (numFunc1 + numFunc2): the thread applies func
RunsFunc1(thread_id, nthr, n1, n2) == thread_id < nthr \div (n1 + n2)

\* no early return
SkipsAsmLoop_Never(iterations) == FALSE

\* if (!iterations) return 0;
SkipsAsmLoop(iterations) == iterations = 0

\* count_bits_asm_chunked(buf, size), and count_bits_fast_chunked of
\* sse.cpp, up to the asm statement: the thread's record rec after the
\* early return (to the program point back) or with the input registers set
AsmChunkedEntry(rec, buf, size, back) ==
    IF SkipsAsmLoop(size \div chunk_size)
    THEN back
    ELSE [rec EXCEPT !.tpc = "asm", !.rcx = ToWord(size \div chunk_size),
                     !.rbuf = buf, !.rtotal = 0]

KernelHarness == KernelFuncs \cup {"intrinsic_double", "optimized", "kernel2"}

Ghosts0 == reads' = <<>> /\ kernel_calls' = 0 /\ naive_len' = 0

(***************************************************************************)
(* The initial state: time_bit_counting(func, buffer, bufsize, iters) is   *)
(* entered, after main has run init_lookup_table.                          *)
(***************************************************************************)
Init ==
    /\ bufsize \in Lengths
    /\ buffer \in {MakeBuffer(p, bufsize) : p \in Patterns}
    /\ lookup_table = FilledTable
    /\ func \in Funcs
    /\ numFunc \in Weights(func)
    /\ nthreads_var \in IF func \in {"naive"} \cup SseFuncs THEN {1} ELSE 1..MaxThreads
    /\ iters \in 1..MaxIters
    /\ i = 0
    /\ num_bits = 0
    /\ out = <<>>
    /\ pc = "time_for"
    /\ frame = NoFrame
    /\ thr = <<>>
    /\ reads = <<>>
    /\ kernel_calls = 0
    /\ naive_len = 0
    /\ results = <<>>
    /\ mpc = 1
    /\ tbl_i = TableEntries
    /\ original_n_threads = nthreads_var
    /\ kernighan = NoKernighan

(***************************************************************************)
(* time_bit_counting.                                                      *)
(***************************************************************************)
\* for (int i = 0; i < iters; i++)
time_for ==
    /\ pc = "time_for"
    /\ pc' = IF i < iters THEN "call" ELSE "time_end"
    /\ UNCHANGED <<ctx, i, num_bits, out, frame, thr, reads, kernel_calls,
                   naive_len, results>>

\* int ten_percent = iters / 10; if (ten_percent < 10) ten_percent = 1;
ten_percent(n) == IF n \div 10 < 10 THEN 1 ELSE n \div 10

\* the bit count printed after every call
Printed_EveryCall(k, n, bits) == <<[text |-> "bits are set", num_bits |-> bits]>>

\* what the loop body prints after call i returned bits: the bit count, a
\* dot, or nothing
Printed(k, n, bits) ==
    IF k = 0 THEN <<[text |-> "bits are set", num_bits |-> bits]>>
    ELSE IF k % ten_percent(n) = 0 THEN <<[text |-> "."]>>
    ELSE <<>>

report ==
    /\ pc = "report"
    /\ out' = out \o Printed(i, iters, num_bits)
    /\ i' = i + 1
    /\ pc' = "time_for"
    /\ UNCHANGED <<ctx, num_bits, frame, thr, reads, kernel_calls, naive_len,
                   results>>

time_end ==
    /\ pc = "time_end"
    /\ pc' = "done"
    /\ UNCHANGED <<ctx, i, num_bits, out, frame, thr, reads, kernel_calls,
                   naive_len, results>>

(***************************************************************************)
(* count_bits_naive called on the whole buffer.                            *)
(***************************************************************************)
count_bits_naive_call ==
    /\ pc = "call" /\ func = "naive"
    /\ \E r \in NaiveOutcomes(0, bufsize) :
          /\ num_bits' = r
          /\ results' = Append(results, r)
    /\ reads' = Touch(<<>>, 0, bufsize)
    /\ kernel_calls' = 0
    /\ naive_len' = bufsize
    /\ pc' = "report"
    /\ UNCHANGED <<ctx, i, out, frame, thr>>

(***************************************************************************)
(* count_bits_kernel, count_bits_kernel_double, count_bits_kernel2.        *)
(***************************************************************************)
count_bits_kernel ==
    /\ pc = "call" /\ func \in KernelFuncs
    /\ frame' = ChunkedFrame(bufsize, chunk_size)
    /\ thr' = [t \in 0..(nthreads_var - 1) |->
                  NewThread(frame'.num_chunks, nthreads_var, t, func)]
    /\ pc' = "parallel"
    /\ Ghosts0
    /\ UNCHANGED <<ctx, i, num_bits, out, results>>

count_bits_kernel_double ==
    /\ pc = "call" /\ func = "intrinsic_double"
    /\ frame' = ChunkedFrame(bufsize, double_chunk_size)
    /\ thr' = [t \in 0..(nthreads_var - 1) |->
                  NewThread(frame'.num_chunks, nthreads_var, t, "intrinsic_double")]
    /\ pc' = "parallel"
    /\ Ghosts0
    /\ UNCHANGED <<ctx, i, num_bits, out, results>>

\* both branches hold a worksharing loop over the same iterations; libgomp
\* gives thread t the same static share of them in either
count_bits_kernel2 ==
    /\ pc = "call" /\ func \in {"optimized", "kernel2"}
    /\ frame' = ChunkedFrame(bufsize, chunk_size)
    /\ thr' = [t \in 0..(nthreads_var - 1) |->
                  NewThread(frame'.num_chunks, nthreads_var, t,
                            IF RunsFunc1(t, nthreads_var, numFunc[1], numFunc[2])
                            THEN "intrinsic" ELSE "sidewaysaddition")]
    /\ pc' = "parallel"
    /\ Ghosts0
    /\ UNCHANGED <<ctx, i, num_bits, out, results>>

\* one iteration of the worksharing loop: thread_total += func(chunk)
kernel_for(t) ==
    /\ pc = "parallel" /\ func \in KernelHarness
    /\ thr[t].tpc = "for" /\ thr[t].idx < thr[t].hi
    /\ LET off == thr[t].idx * ChunkSizeOf(func)
       IN  /\ \E g \in Garbage(off, ChunkSizeOf(func)) :
                \E r \in KernelOutcomes(thr[t].kern, lookup_table, LoadChunk(off, g)) :
                   thr' = [thr EXCEPT ![t].thread_total = @ + r, ![t].idx = @ + 1]
           /\ reads' = Touch(reads, off, ChunkSizeOf(func))
    /\ kernel_calls' = kernel_calls + 1
    /\ UNCHANGED <<ctx, i, num_bits, out, pc, frame, naive_len, results>>

\* a combination that overwrites the original instead of adding to it
Reduce_Overwrite(f, t, priv) == [f EXCEPT !.total = priv]

\* the end of the region for thread t, with priv its private copy of total:
\* reduction (+:total) adds the private copy to the original total
Reduce(f, t, priv) == [f EXCEPT !.total = @ + priv]

\* total += thread_total, on the thread's private copy of total, which the
\* reduction then combines into the original
thread_accumulate(t) ==
    /\ pc = "parallel" /\ func \in KernelHarness
    /\ thr[t].tpc = "for" /\ LoopBarrier
    /\ thr' = [thr EXCEPT ![t].total = @ + thr[t].thread_total, ![t].tpc = "done"]
    /\ frame' = Reduce(frame, t, thr'[t].total)
    /\ UNCHANGED <<ctx, i, num_bits, out, pc, reads, kernel_calls, naive_len,
                   results>>

\* total += count_bits_naive(buffer + chunked_bufsize, leftover); return total;
tail ==
    /\ pc = "parallel" /\ Joined
    /\ \E r \in NaiveOutcomes(frame.chunked_bufsize, frame.leftover) :
          /\ frame' = [frame EXCEPT !.total = @ + r]
          /\ num_bits' = frame.total + r
          /\ results' = Append(results, frame.total + r)
    /\ reads' = Touch(reads, frame.chunked_bufsize, frame.leftover)
    /\ naive_len' = frame.leftover
    /\ pc' = "report"
    /\ UNCHANGED <<ctx, i, out, thr, kernel_calls>>

(***************************************************************************)
(* count_bits_asm and count_bits_asm_chunked.                              *)
(***************************************************************************)
count_bits_asm ==
    /\ pc = "call" /\ func = "asm"
    /\ frame' = AsmFrame(bufsize, num_threads)
    /\ thr' = [t \in 0..(nthreads_var - 1) |->
                  NewThread(num_threads, nthreads_var, t, "popcnt")]
    /\ pc' = "parallel"
    /\ Ghosts0
    /\ UNCHANGED <<ctx, i, num_bits, out, results>>

\* the loop body for one core, up to the asm statement
asm_core(t) ==
    /\ pc = "parallel" /\ func = "asm"
    /\ thr[t].tpc = "for" /\ thr[t].idx < thr[t].hi
    /\ thr' = [thr EXCEPT ![t] =
                  AsmChunkedEntry(@, thr[t].idx * frame.bufsize_per_core,
                                  frame.bufsize_per_core,
                                  [@ EXCEPT !.idx = @ + 1])]
    /\ UNCHANGED <<ctx, i, num_bits, out, pc, frame, reads, kernel_calls,
                   naive_len, results>>

\* popcnt (%[buffer]), %[bitcount]; add %[bitcount], %[total];
\* add %[chunk_size], %[buffer]; loop 1b
AsmLoopBody(rec, g) ==
    [rec EXCEPT !.rtotal = @ + popcnt(LoadChunk(rec.rbuf, g)),
                !.rbuf = @ + chunk_size,
                !.rcx = Sub64(@, ToWord(1))]

\* the asm statement, one pass of its loop; when rcx reaches 0 the function
\* returns total: to total += num_bits in count_bits_asm, or to
\* count_bits_chunked in sse.cpp
asm_loop(t) ==
    /\ pc \in {"parallel", "chunked"}
    /\ thr[t].tpc = "asm"
    /\ \E g \in Garbage(thr[t].rbuf, chunk_size) :
          LET rec == AsmLoopBody(thr[t], g)
          IN  thr' = [thr EXCEPT ![t] =
                        IF ~IsZero64(rec.rcx) THEN rec
                        ELSE IF func = "asm"
                        THEN [rec EXCEPT !.total = @ + rec.rtotal, !.idx = @ + 1,
                                         !.tpc = "for"]
                        ELSE [rec EXCEPT !.total = rec.rtotal, !.tpc = "done"]]
    /\ reads' = Touch(reads, thr[t].rbuf, chunk_size)
    /\ kernel_calls' = kernel_calls + 1
    /\ UNCHANGED <<ctx, i, num_bits, out, pc, frame, naive_len, results>>

\* the thread has run its cores: its private copy of total is combined into
\* the original at the end of the parallel for
asm_for_end(t) ==
    /\ pc = "parallel" /\ func = "asm"
    /\ thr[t].tpc = "for" /\ LoopBarrier
    /\ thr' = [thr EXCEPT ![t].tpc = "done"]
    /\ frame' = Reduce(frame, t, thr[t].total)
    /\ UNCHANGED <<ctx, i, num_bits, out, pc, reads, kernel_calls, naive_len,
                   results>>

(***************************************************************************)
(* sse.cpp: count_bits_chunked with count_bits_intrinsic_chunked or        *)
(* count_bits_fast_chunked, on the calling thread alone.                   *)
(***************************************************************************)
count_bits_chunked ==
    /\ pc = "call" /\ func \in SseFuncs
    /\ frame' = ChunkedFrame(bufsize, chunk_size)
    /\ LET rec == NewThread(0, 1, 0, "popcnt")
           iterations == frame'.chunked_bufsize \div chunk_size
       IN  thr' = [t \in {0} |->
                     IF func = "sse_fast"
                     THEN AsmChunkedEntry(rec, 0, frame'.chunked_bufsize,
                                          [rec EXCEPT !.tpc = "done"])
                     ELSE [rec EXCEPT !.hi = iterations,
                                      !.tpc = IF iterations = 0 THEN "done" ELSE "sse_for"]]
    /\ pc' = "chunked"
    /\ Ghosts0
    /\ UNCHANGED <<ctx, i, num_bits, out, results>>

\* one iteration of the loop of count_bits_intrinsic_chunked
intrinsic_chunked_for(t) ==
    /\ pc = "chunked"
    /\ thr[t].tpc = "sse_for" /\ thr[t].idx < thr[t].hi
    /\ \E g \in Garbage(thr[t].rbuf, chunk_size) :
          thr' = [thr EXCEPT ![t].total = @ + popcnt(LoadChunk(thr[t].rbuf, g)),
                             ![t].rbuf = @ + chunk_size,
                             ![t].idx = @ + 1,
                             ![t].tpc = IF thr[t].idx + 1 < thr[t].hi
                                        THEN "sse_for" ELSE "done"]
    /\ reads' = Touch(reads, thr[t].rbuf, chunk_size)
    /\ kernel_calls' = kernel_calls + 1
    /\ UNCHANGED <<ctx, i, num_bits, out, pc, frame, naive_len, results>>

\* return chunked_func(buffer, chunked_bufsize)
\*        + count_bits_naive(buffer + chunked_bufsize, leftover);
count_bits_chunked_return ==
    /\ pc = "chunked" /\ thr[0].tpc = "done"
    /\ \E r \in NaiveOutcomes(frame.chunked_bufsize, frame.leftover) :
          /\ frame' = [frame EXCEPT !.total = thr[0].total + r]
          /\ num_bits' = thr[0].total + r
          /\ results' = Append(results, thr[0].total + r)
    /\ reads' = Touch(reads, frame.chunked_bufsize, frame.leftover)
    /\ naive_len' = frame.leftover
    /\ pc' = "report"
    /\ UNCHANGED <<ctx, i, out, thr, kernel_calls>>

Next ==
    \/ time_for
    \/ report
    \/ time_end
    \/ count_bits_naive_call
    \/ count_bits_kernel
    \/ count_bits_kernel_double
    \/ count_bits_kernel2
    \/ count_bits_asm
    \/ count_bits_chunked
    \/ tail
    \/ count_bits_chunked_return
    \/ \E t \in Team : kernel_for(t)
    \/ \E t \in Team : thread_accumulate(t)
    \/ \E t \in Team : asm_core(t)
    \/ \E t \in Team : asm_loop(t)
    \/ \E t \in Team : asm_for_end(t)
    \/ \E t \in Team : intrinsic_chunked_for(t)

Spec == Init /\ [][Next]_vars

(***************************************************************************)
(* main of count_bits.cpp.  The buffer has megs_of_data * 1024 * 1024      *)
(* bytes; the model scales the megabyte down to ModelMeg bytes.            *)
(***************************************************************************)
\* How many trials to use for timing the slow and fast implementations
naive_iters == 10
kernel_iters == 25
fast_iters == 100

\* main after init_lookup_table: the calls of time_bit_counting, and the
\* two places where the number of threads is set
MainProgram ==
    << [op |-> "time", f |-> "naive", n |-> naive_iters, cond |-> "always"],
       [op |-> "serial", f |-> "", n |-> 0, cond |-> "always"],
       [op |-> "time", f |-> "kernighan", n |-> kernel_iters, cond |-> "lt4"],
       [op |-> "time", f |-> "table", n |-> kernel_iters, cond |-> "lt4"],
       [op |-> "time", f |-> "intrinsic", n |-> fast_iters, cond |-> "always"],
       [op |-> "time", f |-> "intrinsic_double", n |-> fast_iters, cond |-> "always"],
       [op |-> "time", f |-> "asm", n |-> fast_iters, cond |-> "always"],
       [op |-> "time", f |-> "sidewaysaddition", n |-> fast_iters, cond |-> "always"],
       [op |-> "parallel", f |-> "", n |-> 0, cond |-> "gt1"],
       [op |-> "time", f |-> "kernighan", n |-> kernel_iters, cond |-> "gt1"],
       [op |-> "time", f |-> "table", n |-> kernel_iters, cond |-> "gt1"],
       [op |-> "time", f |-> "intrinsic", n |-> fast_iters, cond |-> "gt1"],
       [op |-> "time", f |-> "intrinsic_double", n |-> fast_iters, cond |-> "gt1"],
       [op |-> "time", f |-> "asm", n |-> fast_iters, cond |-> "gt1"],
       [op |-> "time", f |-> "sidewaysaddition", n |-> fast_iters, cond |-> "gt1"],
       [op |-> "time", f |-> "optimized", n |-> fast_iters, cond |-> "gt1"] >>

\* if (original_n_threads < 4) and if (original_n_threads > 1)
CondHolds(c) ==
    CASE c = "always" -> TRUE
      [] c = "lt4" -> original_n_threads < 4
      [] c = "gt1" -> original_n_threads > 1

AtStep == pc = "idle" /\ mpc \in 1..Len(MainProgram)

InitMain ==
    /\ bufsize = ModelMeg
    /\ buffer \in {MakeBuffer(p, bufsize) : p \in Patterns}
    /\ lookup_table = [b \in 0..(TableEntries - 1) |-> 0]
    /\ nthreads_var \in 1..MaxThreads
    /\ func = "naive"
    /\ numFunc = <<1, 1>>
    /\ iters = 0
    /\ i = 0
    /\ num_bits = 0
    /\ out = <<>>
    /\ pc = "idle"
    /\ frame = NoFrame
    /\ thr = <<>>
    /\ reads = <<>>
    /\ kernel_calls = 0
    /\ naive_len = 0
    /\ results = <<>>
    /\ mpc = 0
    /\ tbl_i = 0
    /\ original_n_threads = 0
    /\ kernighan = NoKernighan

\* for (int i = 0; i < 256; i++) lookup_table[i] = count_bits(i);
init_lookup_table ==
    /\ mpc = 0 /\ pc = "idle"
    /\ IF tbl_i < TableEntries
       THEN /\ lookup_table' = [lookup_table EXCEPT ![tbl_i] = count_bits(tbl_i)]
            /\ tbl_i' = tbl_i + 1
            /\ mpc' = mpc
       ELSE /\ mpc' = 1
            /\ UNCHANGED <<lookup_table, tbl_i>>
    /\ UNCHANGED <<kernighan, buffer, bufsize, nthreads_var, func, numFunc,
                   iters, i, num_bits, out, pc, frame, thr, reads,
                   kernel_calls, naive_len, results, original_n_threads>>

\* time_bit_counting(description, func, buffer, bufsize, iters) is called
main_time_bit_counting ==
    /\ AtStep /\ MainProgram[mpc].op = "time" /\ CondHolds(MainProgram[mpc].cond)
    /\ func' = MainProgram[mpc].f
    /\ iters' = MainProgram[mpc].n
    /\ i' = 0
    /\ out' = <<>>
    /\ results' = <<>>
    /\ pc' = "time_for"
    /\ UNCHANGED <<kernighan, buffer, bufsize, lookup_table, nthreads_var,
                   numFunc, num_bits, frame, thr, reads, kernel_calls,
                   naive_len, mpc, tbl_i, original_n_threads>>

\* time_bit_counting has returned
main_return ==
    /\ pc = "done" /\ mpc \in 1..Len(MainProgram)
    /\ pc' = "idle"
    /\ mpc' = mpc + 1
    /\ UNCHANGED <<kernighan, buffer, bufsize, lookup_table, nthreads_var, func,
                   numFunc, iters, i, num_bits, out, frame, thr, reads, kernel_calls, naive_len,
                   results, tbl_i, original_n_threads>>

\* int original_n_threads = num_threads(); omp_set_num_threads(1);
main_serial ==
    /\ AtStep /\ MainProgram[mpc].op = "serial"
    /\ original_n_threads' = num_threads
    /\ nthreads_var' = 1
    /\ mpc' = mpc + 1
    /\ UNCHANGED <<kernighan, buffer, bufsize, lookup_table, func, numFunc,
                   iters, i, num_bits, out, pc, frame, thr, reads,
                   kernel_calls, naive_len, results, tbl_i>>

\* omp_set_num_threads(original_n_threads);
main_parallel ==
    /\ AtStep /\ MainProgram[mpc].op = "parallel" /\ CondHolds(MainProgram[mpc].cond)
    /\ nthreads_var' = original_n_threads
    /\ mpc' = mpc + 1
    /\ UNCHANGED <<kernighan, buffer, bufsize, lookup_table, func, numFunc,
                   iters, i, num_bits, out, pc, frame, thr, reads,
                   kernel_calls, naive_len, results, tbl_i,
                   original_n_threads>>

\* a statement under an if whose condition is false
main_skip ==
    /\ AtStep /\ ~CondHolds(MainProgram[mpc].cond)
    /\ mpc' = mpc + 1
    /\ UNCHANGED <<kernighan, buffer, bufsize, lookup_table, nthreads_var, func,
                   numFunc, iters, i, num_bits, out, pc, frame, thr, reads, kernel_calls, naive_len,
                   results, tbl_i, original_n_threads>>

NextMain ==
    \/ init_lookup_table
    \/ main_time_bit_counting
    \/ main_return
    \/ main_serial
    \/ main_parallel
    \/ main_skip
    \/ time_for
    \/ report
    \/ time_end
    \/ count_bits_naive_call
    \/ count_bits_kernel
    \/ count_bits_kernel_double
    \/ count_bits_kernel2
    \/ count_bits_asm
    \/ tail
    \/ \E t \in Team : kernel_for(t)
    \/ \E t \in Team : thread_accumulate(t)
    \/ \E t \in Team : asm_core(t)
    \/ \E t \in Team : asm_loop(t)
    \/ \E t \in Team : asm_for_end(t)

SpecMain == InitMain /\ [][NextMain]_vars

(***************************************************************************)
(* kernighan_kernel stepped through, one loop iteration a step, on the     *)
(* words of KernighanWords.  chunk - 1 overflows the signed long when      *)
(* chunk is LONG_MIN, which every word with its top bit set reaches in its *)
(* last iteration: the build either keeps the loop, whose subtraction      *)
(* wraps, or replaces the loop by the popcount it is recognised as.        *)
(***************************************************************************)
\* the bytes the words are made of: no bit, the lowest, the highest, all
KernighanBytes == {0, 1, 128, 255}

\* words of 8 bytes, least significant first
KernighanWords ==
    {<<a, b, m, m, m, m, c, d>> : a \in KernighanBytes, b \in KernighanBytes,
                                  c \in KernighanBytes, d \in KernighanBytes,
                                  m \in {0, 255}}

\* what the build makes of the loop
KernighanBuilds == {"loop", "popcnt"}

\* everything but the activation of kernighan_kernel
caller == <<buffer, bufsize, lookup_table, nthreads_var, func, numFunc, iters, i,
            num_bits, out, pc, frame, thr, reads, kernel_calls, naive_len,
            results, mpc, tbl_i, original_n_threads>>

\* kernighan_kernel(_chunk) is called
InitKernighan ==
    /\ kernighan \in {[NoKernighan EXCEPT !.arg = w, !.build = b, !.kpc = "entry"] :
                        w \in KernighanWords, b \in KernighanBuilds}
    /\ bufsize = 0
    /\ buffer = MakeBuffer(1, 0)
    /\ lookup_table = FilledTable
    /\ func = "kernighan"
    /\ numFunc = <<1, 1>>
    /\ nthreads_var = 1
    /\ iters = 1
    /\ i = 0
    /\ num_bits = 0
    /\ out = <<>>
    /\ pc = "idle"
    /\ frame = NoFrame
    /\ thr = <<>>
    /\ reads = <<>>
    /\ kernel_calls = 0
    /\ naive_len = 0
    /\ results = <<>>
    /\ mpc = 1
    /\ tbl_i = TableEntries
    /\ original_n_threads = 1

\* long chunk = static_cast<long>(_chunk); long total = 0;
kernighan_entry ==
    /\ kernighan.kpc = "entry"
    /\ kernighan' = [kernighan EXCEPT !.chunk = kernighan.arg, !.total = 0,
                                      !.kpc = IF kernighan.build = "loop"
                                              THEN "while" ELSE "popcnt"]
    /\ UNCHANGED caller

\* while (chunk) { total++; chunk &= chunk - 1; }: one iteration
kernighan_while ==
    /\ kernighan.kpc = "while" /\ ~IsZero64(kernighan.chunk)
    /\ kernighan' = [kernighan EXCEPT !.total = @ + 1,
                                      !.chunk = KernighanStep(@),
                                      !.iterations = @ + 1]
    /\ UNCHANGED caller

\* chunk is 0: return total
kernighan_return ==
    /\ kernighan.kpc = "while" /\ IsZero64(kernighan.chunk)
    /\ kernighan' = [kernighan EXCEPT !.kpc = "returned"]
    /\ UNCHANGED caller

\* the loop compiled to the popcnt instruction: return its result
kernighan_popcnt ==
    /\ kernighan.kpc = "popcnt"
    /\ kernighan' = [kernighan EXCEPT !.total = popcnt(kernighan.chunk),
                                      !.kpc = "returned"]
    /\ UNCHANGED caller

NextKernighan ==
    \/ kernighan_entry
    \/ kernighan_while
    \/ kernighan_return
    \/ kernighan_popcnt

\* the thread that runs kernighan_kernel keeps running it
SpecKernighan ==
    InitKernighan /\ [][NextKernighan]_vars /\ WF_vars(NextKernighan)

(***************************************************************************)
(* Properties.                                                             *)
(***************************************************************************)
\* a call of the counting function has just returned
Returned == pc = "report"

\* the functions that split the buffer into chunks and a tail
ChunkedFuncs == KernelHarness \cup {"asm"} \cup SseFuncs

\* the functions that open a parallel region
ParallelFuncs == KernelHarness \cup {"asm"}

\* C1: every counting function returns the total count_bits_naive returns
\* on the same buffer, whatever the length and the number of threads, also
\* when a chunk has its top bit set.
C1_SameAsNaive ==
    Returned /\ func \in Funcs \ {"naive"}
        => num_bits = count_bits_naive(buffer, bufsize)

\* a parallel Kernighan count over two chunks with their top bits set and a
\* remainder has returned
C1_Witness ==
    /\ Returned /\ func = "kernighan" /\ nthreads_var = 2
    /\ bufsize = 2 * chunk_size + 3
    /\ buffer[chunk_size - 1] >= 128 /\ buffer[2 * chunk_size - 1] >= 128
    /\ num_bits = count_bits_naive(buffer, bufsize) /\ num_bits > 0

\* C2: in every chunked function each byte of the buffer is read, and so
\* counted, exactly once: the threads' ranges are contiguous and do not
\* overlap, and the remainder goes to count_bits_naive once.
C2_EachByteOnce ==
    /\ \A o \in DOMAIN reads : reads[o] = 1
    /\ Returned /\ func \in ChunkedFuncs
          => /\ DOMAIN reads = 0..(bufsize - 1)
             /\ kernel_calls * ChunkSizeOf(func) + naive_len = bufsize
    /\ pc = "parallel"
          => /\ thr[0].lo = 0
             /\ \A t \in Team : thr[t].lo <= thr[t].hi
             /\ \A t \in Team \ {0} : thr[t].lo = thr[t - 1].hi
             /\ thr[nthreads_var - 1].hi
                   = IF func = "asm" THEN frame.num_cores ELSE frame.num_chunks

\* the hybrid function has returned from three threads over two chunks and
\* five more bytes
C2_Witness ==
    /\ Returned /\ func = "optimized" /\ nthreads_var = 3
    /\ bufsize = 2 * chunk_size + 5 /\ naive_len = 5 /\ kernel_calls = 2
    /\ \A o \in 0..(bufsize - 1) : reads[o] = 1

\* C3: every offset read lies in [0, bufsize); an empty buffer gives 0 with
\* no read at all; the asm loop is never entered with a count of 0.
C3_ReadsInBounds ==
    /\ DOMAIN reads \subseteq 0..(bufsize - 1)
    /\ Returned /\ bufsize = 0 => num_bits = 0 /\ reads = <<>>
    /\ \A t \in Team : thr[t].tpc = "asm" => ~IsZero64(thr[t].rcx)

\* count_bits_asm has returned on a buffer shorter than one chunk per core:
\* count_bits_asm_chunked returned early on every core, the bytes all went
\* to the tail
C3_Witness ==
    /\ Returned /\ func = "asm" /\ nthreads_var = 3 /\ bufsize = 2 * chunk_size - 1
    /\ kernel_calls = 0 /\ naive_len = bufsize
    /\ DOMAIN reads = 0..(bufsize - 1)

RECURSIVE ChunkSum(_, _, _, _)
\* the kernel kern applied to the chunks lo..hi-1 of csize bytes, in order
ChunkSum(kern, csize, lo, hi) ==
    IF hi <= lo THEN 0
    ELSE ChunkSum(kern, csize, lo, hi - 1)
         + (CHOOSE r \in KernelOutcomes(kern, lookup_table,
                                        LoadChunk((hi - 1) * csize, 0)) : TRUE)

\* count_bits_naive on the n bytes of the buffer from off on
NaiveAt(off, n) == count_bits_naive([k \in 0..(n - 1) |-> buffer[off + k]], n)

\* what the function returns when run by one thread: its kernel over the
\* whole chunks in order, then the naive count of the rest
OneThreadTotal ==
    LET csize == ChunkSizeOf(func)
        kern == CASE func \in {"optimized", "kernel2"} -> "sidewaysaddition"
                  [] func = "asm" -> "intrinsic"
                  [] OTHER -> func
        n == bufsize \div csize
    IN  ChunkSum(kern, csize, 0, n) + NaiveAt(n * csize, bufsize - n * csize)

\* C4: the total a parallel function returns is the one a single thread
\* computes, whatever the number of threads, the interleaving of their steps
\* and the order in which their partial sums are combined.
C4_ThreadCountInvariant ==
    Returned /\ func \in ParallelFuncs => num_bits = OneThreadTotal

\* the table count has returned from three threads, two of which had a chunk
C4_Witness ==
    /\ Returned /\ func = "table" /\ nthreads_var = 3
    /\ frame.num_chunks = 2 /\ thr[0].thread_total > 0 /\ thr[1].thread_total > 0
    /\ num_bits = thr[0].total + thr[1].total + thr[2].total
                  + NaiveAt(frame.chunked_bufsize, frame.leftover)

\* the naive bit count of every byte value
NaiveCounts == [b \in 0..255 |-> NaiveByte(b)]

\* C6: when table_kernel can read the table, in a serial or a parallel call
\* of count_bits_table, init_lookup_table has filled all 256 entries, each
\* lookup_table[b] is the naive bit count of the byte b, and it stays so.
C6_TableFilled ==
    /\ func = "table" /\ pc # "idle" => tbl_i = TableEntries /\ mpc > 0
    /\ mpc > 0 => lookup_table = NaiveCounts

\* a thread of the parallel table count has read the table for a chunk
C6_Witness ==
    /\ func = "table" /\ pc = "parallel" /\ nthreads_var >= 2 /\ kernel_calls >= 1
    /\ lookup_table[255] = 8 /\ lookup_table[177] = 4

\* C5: all-zero bytes count 0, L bytes 0xFF count 8 * L, the single byte
\* 0b10110001 counts 4, with every counting function.
C5_KnownVectors ==
    Returned =>
        /\ (\A o \in DOMAIN buffer : buffer[o] = 0) => num_bits = 0
        /\ (\A o \in DOMAIN buffer : buffer[o] = 255) => num_bits = 8 * bufsize
        /\ (bufsize = 1 /\ buffer[0] = 177) => num_bits = 4

\* the sideways addition has counted 19 bytes 0xFF
C5_Witness ==
    /\ Returned /\ func = "sidewaysaddition"
    /\ bufsize = 2 * chunk_size + 3 /\ \A o \in DOMAIN buffer : buffer[o] = 255
    /\ num_bits = 8 * bufsize

\* C7: no step changes the buffer, and the calls of one counting function
\* on it all return the same total, count_bits_asm included.
C7_SameTwice ==
    [][/\ buffer' = buffer
       /\ \A j \in DOMAIN results' : results'[j] = results'[1]]_vars

\* count_bits_asm has returned twice, its pointer register advanced past
\* the chunk it read
C7_Witness ==
    /\ Returned /\ func = "asm" /\ Len(results) = 2 /\ nthreads_var = 1
    /\ thr[0].rbuf = bufsize /\ bufsize = 2 * chunk_size
    /\ results[1] = results[2] /\ results[1] > 0

\* C8 as stated: every chunked function, count_bits_asm included, applies
\* its kernel to exactly length / chunk_size chunks and hands exactly
\* length % chunk_size bytes to count_bits_naive.
C8_SameTailEverywhere ==
    Returned /\ func \in ChunkedFuncs
        => /\ kernel_calls = bufsize \div ChunkSizeOf(func)
           /\ naive_len = bufsize % ChunkSizeOf(func)

\* C8 amended: so it is in every chunked function but count_bits_asm, which
\* gives each of the num_threads() cores the same whole number of chunks
\* and hands all the rest, fewer than num_threads() * chunk_size bytes, to
\* count_bits_naive.
C8_TailPolicy ==
    Returned /\ func \in ChunkedFuncs
        => IF func = "asm"
           THEN /\ kernel_calls
                     = nthreads_var * ((bufsize \div chunk_size) \div nthreads_var)
                /\ naive_len = bufsize - kernel_calls * chunk_size
                /\ naive_len < nthreads_var * chunk_size
           ELSE /\ kernel_calls = bufsize \div ChunkSizeOf(func)
                /\ naive_len = bufsize % ChunkSizeOf(func)
                /\ naive_len < ChunkSizeOf(func)

\* count_bits_asm has returned from two cores on one chunk and three bytes:
\* no chunk went to popcnt, eleven bytes went to the tail
C8_Witness ==
    /\ Returned /\ func = "asm" /\ nthreads_var = 2 /\ bufsize = chunk_size + 3
    /\ kernel_calls = 0 /\ naive_len = chunk_size + 3

\* C9: count_bits_kernel2 gives func to the threads below a bound and func2
\* to the others, by thread index and team size alone, and the sizes of the
\* two groups are in the proportion numFunc1 : numFunc2, up to rounding.
C9_WeightedSplit ==
    pc = "parallel" /\ func \in {"optimized", "kernel2"}
        => LET first == {t \in Team : thr[t].kern = "intrinsic"}
               g1 == Cardinality(first)
               sum == numFunc[1] + numFunc[2]
           IN  /\ first = 0..(g1 - 1)
               /\ \A t \in Team \ first : thr[t].kern = "sidewaysaddition"
               /\ g1 * sum - nthreads_var * numFunc[1] < sum
               /\ nthreads_var * numFunc[1] - g1 * sum < sum

RECURSIVE SumTotals(_)
\* the private copies of total of the threads of T
SumTotals(T) ==
    IF T = {} THEN 0
    ELSE LET t == CHOOSE u \in T : TRUE
         IN  thr[t].total + SumTotals(T \ {t})

\* C10: the parallel region is a fork/join with private accumulators.  A
\* step inside the region writes the private variables of one thread only,
\* and the original total only as that thread finishes, by adding the
\* thread's private total; it neither reads the total nor counts the tail.
\* The step that counts the tail and returns is taken only when every thread
\* has finished its range and the total holds every thread's partial sum.
C10_ForkJoin ==
    [][/\ pc = "parallel" /\ pc' = "parallel"
          => /\ \E t \in Team : \A u \in Team \ {t} : thr'[u] = thr[u]
             /\ frame' # frame
                   => \E t \in Team :
                         /\ thr[t].tpc # "done" /\ thr'[t].tpc = "done"
                         /\ frame' = [frame EXCEPT !.total = @ + thr'[t].total]
             /\ num_bits' = num_bits /\ naive_len' = naive_len
             /\ results' = results
       /\ pc = "parallel" /\ pc' # "parallel"
          => /\ \A t \in Team : thr[t].tpc = "done" /\ thr[t].idx = thr[t].hi
             /\ frame.total = SumTotals(Team)
             /\ thr' = thr]_vars

\* of three threads the first has finished and given its sum to the total
\* while the second still holds its own
C10_Witness ==
    /\ pc = "parallel" /\ func = "intrinsic" /\ nthreads_var = 3
    /\ thr[0].tpc = "done" /\ thr[1].tpc = "for" /\ thr[1].thread_total > 0
    /\ frame.total = thr[0].total /\ frame.total > 0
RECURSIVE LowestBit(_)
\* the value of the lowest set bit of the byte b > 0
LowestBit(b) == IF b % 2 = 1 THEN 1 ELSE 2 * LowestBit(b \div 2)

RECURSIVE ClearLowestFrom(_, _)
\* the word w from byte k on, without its lowest set bit
ClearLowestFrom(w, k) ==
    IF k > chunk_size THEN <<>>
    ELSE IF w[k] = 0 THEN <<0>> \o ClearLowestFrom(w, k + 1)
    ELSE <<w[k] - LowestBit(w[k])>> \o SubSeq(w, k + 1, chunk_size)

\* C11: for every word, 0 and words with the top bit set included, the loop
\* of kernighan_kernel ends, after as many iterations as the word has set
\* bits: an iteration clears the lowest set bit of chunk and nothing else
\* and adds one to total, so that total counts the iterations while the loop
\* runs, and the total returned is the number of set bits of the word; the
\* build that replaces the loop by popcnt returns the same total.
C11_KernighanTerminates ==
    /\ [][kernighan'.iterations # kernighan.iterations
             => /\ kernighan'.iterations = kernighan.iterations + 1
                /\ kernighan'.total = kernighan.total + 1
                /\ kernighan'.chunk = ClearLowestFrom(kernighan.chunk, 1)]_vars
    /\ [](/\ kernighan.build = "loop" => kernighan.total = kernighan.iterations
          /\ kernighan.kpc = "returned"
                => /\ kernighan.total = count_bits_naive(
                          [k \in 0..(chunk_size - 1) |-> kernighan.arg[k + 1]],
                          chunk_size)
                   /\ kernighan.build = "loop"
                         => kernighan.iterations = kernighan.total)
    /\ <>(kernighan.kpc = "returned")

\* the loop has returned 9 for a word with its top bit set, after 9
\* iterations, the last of which had LONG_MIN in chunk
C11_Witness ==
    /\ kernighan.kpc = "returned" /\ kernighan.build = "loop"
    /\ kernighan.arg = <<1, 0, 0, 0, 0, 0, 0, 255>>
    /\ kernighan.iterations = 9 /\ kernighan.total = 9
    /\ IsZero64(kernighan.chunk)

\* C12: time_bit_counting calls the counting function iters times, whatever
\* iters >= 1 is, every call on the same whole buffer with the same length,
\* and prints the bit count once: after the first call, the count that call
\* returned, and after no later call.
C12_CallsAndReport ==
    /\ [](pc \notin {"idle"}
            => /\ i <= iters
               /\ Len(results) = IF pc = "report" THEN i + 1 ELSE i
               /\ pc \in {"time_end", "done"} => Len(results) = iters
               /\ Returned => DOMAIN reads = 0..(bufsize - 1)
               /\ LET reports == {j \in DOMAIN out : out[j].text = "bits are set"}
                  IN  /\ i = 0 => out = <<>>
                      /\ i = 1 => Len(out) = 1
                      /\ i >= 1 => /\ reports = {1}
                                   /\ out[1].num_bits = results[1])
    /\ [][pc # "idle" /\ pc' # "idle"
             => /\ buffer' = buffer /\ bufsize' = bufsize
                /\ func' = func /\ iters' = iters]_vars

\* time_bit_counting has ended after two calls of count_bits_fast of sse.cpp:
\* the bit count of the first, then a dot
C12_Witness ==
    /\ pc = "done" /\ func = "sse_fast" /\ iters = 2 /\ i = 2
    /\ Len(results) = 2 /\ Len(out) = 2
    /\ out[1].text = "bits are set" /\ out[1].num_bits = results[1]
    /\ out[2].text = "." /\ results[1] > 0
====
